---- MODULE Spec2Model ----
(***************************************************************************)
(* Model of couchtypes/utils.js: parseCSV, getPropertyPath and getErrors.  *)
(* Strings are sequences of one-character strings; indices kept in the     *)
(* state are the 0-based indices of the JavaScript source.                 *)
(***************************************************************************)
EXTENDS Integers, Sequences, FiniteSets, TLC

\* ---------------------------------------------------------------- bounds
MaxLen == 4
MaxDepth == 2
MaxPath == 3
MaxItems == 2

\* ------------------------------------------------------------ characters
Quote == "\""
Comma == ","
CR == "\r"
LF == "\n"
Space == " "
Letter == "a"

Alphabet == {Letter, Comma, CR, LF, Quote, Space}

\* the character class [,\015\012] of both regular expressions
Delims == {Comma, CR, LF}

\* the characters String.prototype.trim removes (those of the alphabet)
WhiteSpace == {Space, CR, LF}

Strings == UNION {[1..n -> Alphabet] : n \in 0..MaxLen}

\* the element of a one-element set; The({e(x) : x \in {v}}) is e(v) with v
\* evaluated once
The(S) == CHOOSE x \in S : TRUE

\* --------------------------------------------------- JavaScript string ops
Min(a, b) == IF a < b THEN a ELSE b

Max(a, b) == IF a > b THEN a ELSE b

Clamp(i, n) == The({Max(0, Min(x, n)) : x \in {i}})

\* s.charAt(i): '' when i is out of range
CharAt(s, i) == IF i >= 0 /\ i < Len(s) THEN s[i + 1] ELSE ""

\* the half-open index range s.substring(a, b) selects: both ends clamped to
\* [0, length] and swapped when a > b
SubRange(s, a, b) ==
    The({[lo |-> Min(ca, cb), hi |-> Max(ca, cb)] :
            ca \in {Clamp(a, Len(s))}, cb \in {Clamp(b, Len(s))}})

Substring(s, a, b) ==
    The({SubSeq(s, r.lo + 1, r.hi) : r \in {SubRange(s, a, b)}})

\* number of leading / trailing white-space characters of s
RECURSIVE LeadWS(_)
LeadWS(s) ==
    IF s # <<>> /\ Head(s) \in WhiteSpace THEN 1 + LeadWS(Tail(s)) ELSE 0

RECURSIVE TrailWSFrom(_, _)
TrailWSFrom(s, n) ==
    IF n > 0 /\ s[n] \in WhiteSpace THEN 1 + TrailWSFrom(s, n - 1) ELSE 0

TrailWS(s) == TrailWSFrom(s, Len(s))

\* s.trim()
Trim(s) ==
    The({IF lead = Len(t) THEN <<>>
         ELSE SubSeq(t, lead + 1, Len(t) - TrailWS(t)) :
            t \in {s}, lead \in {LeadWS(s)}})

\* s.replace(/""/g, '"'): left to right, non-overlapping
RECURSIVE ReplacePairs(_)
ReplacePairs(s) ==
    IF Len(s) >= 2 /\ s[1] = Quote /\ s[2] = Quote
    THEN <<Quote>> \o ReplacePairs(Tail(Tail(s)))
    ELSE IF s = <<>> THEN <<>>
    ELSE <<Head(s)>> \o ReplacePairs(Tail(s))

\* s.indexOf(c)
IndexOf(s, c) ==
    IF \E i \in 1..Len(s) : s[i] = c
    THEN (CHOOSE i \in 1..Len(s) : s[i] = c /\ \A j \in 1..(i - 1) : s[j] # c) - 1
    ELSE -1

\* ------------------------------------------------------ regular expressions
\* length of the run of spaces starting at index i (the greedy " *")
RECURSIVE SpaceRun(_, _)
SpaceRun(s, i) == IF CharAt(s, i) = Space THEN 1 + SpaceRun(s, i + 1) ELSE 0

Leftmost(ps) == CHOOSE x \in ps : \A y \in ps : x <= y

Greatest(ks) == CHOOSE x \in ks : \A y \in ks : x >= y

\* the result of a failed exec
NoMatch == [found |-> FALSE, index |-> -1, lastIndex |-> 0, groups |-> <<>>]

\* /([,\015\012] *)/g matched at index p exactly
FieldEndAt(s, p) == CharAt(s, p) \in Delims

\* the match of /([,\015\012] *)/g at index p with n spaces after the
\* delimiter; groups = <<whole match, group 1>>
FieldEndMatch(s, p, n) ==
    [found |-> TRUE, index |-> p, lastIndex |-> p + 1 + n,
     groups |-> <<Substring(s, p, p + 1 + n), Substring(s, p, p + 1 + n)>>]

\* the match at index p, the run of spaces taken greedily
FieldEndMatchAt(s, p) ==
    The({FieldEndMatch(s, p, n) : n \in {SpaceRun(s, p + 1)}})

\* fieldEndMarker.exec(s) with lastIndex = from: the leftmost match at or
\* after from
ExecFieldEnd(s, from) ==
    LET ps == {p \in from..(Len(s) - 1) : FieldEndAt(s, p)}
    IN  IF from > Len(s) \/ ps = {} THEN NoMatch
        ELSE The({FieldEndMatchAt(s, p) : p \in {Leftmost(ps)}})

\* the numbers k of doubled-quote pairs with which /("")*"([,\015\012] *)/g
\* matches at index p exactly
QPairCounts(s, p) ==
    {k \in 0..Len(s) :
        /\ \A i \in p..(p + 2 * k) : CharAt(s, i) = Quote
        /\ CharAt(s, p + 2 * k + 1) \in Delims}

\* the match of /("")*"([,\015\012] *)/g at index p with k pairs and n spaces
\* after the delimiter; groups = <<whole match, last pair of group 1, group 2>>
QFieldEndMatch(s, p, k, n) ==
    [found |-> TRUE, index |-> p, lastIndex |-> p + 2 * k + 2 + n,
     groups |-> <<Substring(s, p, p + 2 * k + 2 + n),
                  IF k > 0 THEN <<Quote, Quote>> ELSE <<>>,
                  Substring(s, p + 2 * k + 1, p + 2 * k + 2 + n)>>]

\* the match at index p with k pairs, the run of spaces taken greedily
QFieldEndMatchPairs(s, p, k) ==
    The({QFieldEndMatch(s, p, k, n) : n \in {SpaceRun(s, p + 2 * k + 2)}})

\* the match at index p, the pairs taken greedily
QFieldEndMatchAt(s, p) ==
    The({QFieldEndMatchPairs(s, p, k) : k \in {Greatest(QPairCounts(s, p))}})

\* qFieldEndMarker.exec(s) with lastIndex = from: the leftmost match at or
\* after from
ExecQFieldEnd(s, from) ==
    LET ps == {p \in from..(Len(s) - 1) : QPairCounts(s, p) # {}}
    IN  IF from > Len(s) \/ ps = {} THEN NoMatch
        ELSE The({QFieldEndMatchAt(s, p) : p \in {Leftmost(ps)}})

\* ------------------------------------------------------------------ state
VARIABLES
    call,           \* the exported function being run
    pc,             \* "run" while the call is executing, "done" once returned
    csvString,      \* parseCSV: the argument
    startIndex,     \* parseCSV: the scan cursor
    records,        \* parseCSV: the result being built
    currentRecord,  \* parseCSV: the record being built
    kept,           \* parseCSV: indices of csvString copied into a field by
                    \*           the substring calls (history of the scan)
    obj,            \* getPropertyPath: first argument of the current call
    path,           \* getPropertyPath: second argument of the current call
    topCall,        \* getPropertyPath: the arguments of the outermost call
    outcome,        \* getErrors: what fn.apply(this, args) does
    result          \* return value of getPropertyPath / getErrors

vars == <<call, pc, csvString, startIndex, records, currentRecord, kept,
          obj, path, topCall, outcome, result>>

\* ---------------------------------------------------------------- parseCSV
\* ch === '"' ? qFieldEndMarker : fieldEndMarker, lastIndex = startIndex, exec
EndMarkerExec(s, start) ==
    IF CharAt(s, start) = Quote THEN ExecQFieldEnd(s, start)
    ELSE ExecFieldEnd(s, start)

\* endIndex = lastIndex - matchArray[matchArray.length - 1].length
EndIndex(m) == m.lastIndex - Len(m.groups[Len(m.groups)])

\* the index range of csvString that ends up in the field of a matched
\* iteration: substring(startIndex, endIndex), then substring(1, length - 1)
\* when it starts with a quote
InnerRange(match, outer) ==
    The({[lo |-> outer.lo + inner.lo, hi |-> outer.lo + inner.hi] :
            inner \in {SubRange(match, 1, Len(match) - 1)}})

FieldRange(s, start, m) ==
    The({IF CharAt(s, outer.lo) = Quote /\ outer.lo < outer.hi
         THEN InnerRange(SubSeq(s, outer.lo + 1, outer.hi), outer)
         ELSE outer :
            outer \in {SubRange(s, start, EndIndex(m))}})

\* variant: the quotes are stripped and replaced whatever the first character
Unescape_Always(match) ==
    ReplacePairs(Substring(match, 1, Len(match) - 1))

\* if (match.charAt(0) === '"') match = match.substring(1, length - 1)
\*                                          .replace(/""/g, '"')
Unescape(match) ==
    IF CharAt(match, 0) = Quote
    THEN ReplacePairs(Substring(match, 1, Len(match) - 1))
    ELSE match

\* variant: the field is trimmed before it is pushed
FieldValue_Trimmed(s, start, m) ==
    Trim(Unescape(Substring(s, start, EndIndex(m))))

\* the value pushed onto currentRecord by a matched iteration
FieldValue(s, start, m) ==
    The({Unescape(match) : match \in {Substring(s, start, EndIndex(m))}})

\* variant: only a line feed ends the record
EndsRecord_LFOnly(m) == IndexOf(m.groups[1], LF) >= 0

\* marker.indexOf(',') < 0, marker = matchArray[0]
EndsRecord(m) == IndexOf(m.groups[1], Comma) < 0

\* variant: the cursor is left on the delimiter instead of after the marker
LoopBody_CursorOnDelimiter(s, start, recs, cur, m) ==
    The({[startIndex |-> EndIndex(m),
          records |-> IF EndsRecord(m) THEN Append(recs, pushed) ELSE recs,
          currentRecord |-> IF EndsRecord(m) THEN <<>> ELSE pushed] :
            pushed \in {Append(cur, FieldValue(s, start, m))}})

\* one iteration of the do-while loop that found the marker m
LoopBody(s, start, recs, cur, m) ==
    The({[startIndex |-> m.lastIndex,
          records |-> IF EndsRecord(m) THEN Append(recs, pushed) ELSE recs,
          currentRecord |-> IF EndsRecord(m) THEN <<>> ELSE pushed] :
            pushed \in {Append(cur, FieldValue(s, start, m))}})

\* variant: the trailing text is not trimmed
Remaining_NoTrim(s, start) ==
    IF start < Len(s) THEN Substring(s, start, Len(s)) ELSE <<>>

\* csvString.substring(startIndex).trim() when startIndex < length, else ''
Remaining(s, start) ==
    IF start < Len(s) THEN Trim(Substring(s, start, Len(s))) ELSE <<>>

\* the index range of csvString that Remaining(s, start) is taken from
RemainingRange(s, start) ==
    The({IF start < Len(s) /\ Trim(rest) # <<>>
         THEN [lo |-> start + LeadWS(rest), hi |-> Len(s) - TrailWS(rest)]
         ELSE [lo |-> start, hi |-> start] :
            rest \in {Substring(s, start, Len(s))}})

\* variant: the trailing text is dropped
WithRemaining_Dropped(s, start, cur) == cur

\* currentRecord after the trailing-text rule
WithRemaining(s, start, cur) ==
    The({IF remaining # <<>> THEN Append(cur, remaining) ELSE cur :
            remaining \in {Remaining(s, start)}})

\* variant: the last record is appended without looking at its length
Finalize_NoLengthCheck(s, start, recs, cur) ==
    Append(recs, WithRemaining(s, start, cur))

\* the code after the loop: the returned records
Finalize(s, start, recs, cur) ==
    The({IF Len(last) > 0 THEN Append(recs, last) ELSE recs :
            last \in {WithRemaining(s, start, cur)}})

RECURSIVE ParseLoop(_, _)
ParseLoop(s, st) ==
    The({IF ~m.found
         THEN Finalize(s, st.startIndex, st.records, st.currentRecord)
         ELSE ParseLoop(s, LoopBody(s, st.startIndex, st.records,
                                    st.currentRecord, m)) :
            m \in {EndMarkerExec(s, st.startIndex)}})

\* parseCSV as a function of its argument
parseCSV(csv) ==
    The({ParseLoop(s, [startIndex |-> 0, records |-> <<>>,
                       currentRecord |-> <<>>]) : s \in {csv}})

Range(r) == r.lo .. (r.hi - 1)

\* a loop iteration whose exec finds a marker
ScanField ==
    /\ call = "parseCSV" /\ pc = "run"
    /\ \E m \in {EndMarkerExec(csvString, startIndex)} :
          /\ m.found
          /\ \E n \in {LoopBody(csvString, startIndex, records, currentRecord, m)} :
                /\ startIndex' = n.startIndex
                /\ records' = n.records
                /\ currentRecord' = n.currentRecord
          /\ kept' = kept \cup Range(FieldRange(csvString, startIndex, m))
    /\ UNCHANGED <<call, pc, csvString, obj, path, topCall, outcome, result>>

\* the loop iteration whose exec finds nothing: break, trailing text, return
Finish ==
    /\ call = "parseCSV" /\ pc = "run"
    /\ \E m \in {EndMarkerExec(csvString, startIndex)} : ~m.found
    /\ currentRecord' = WithRemaining(csvString, startIndex, currentRecord)
    /\ records' = Finalize(csvString, startIndex, records, currentRecord)
    /\ kept' = kept \cup Range(RemainingRange(csvString, startIndex))
    /\ pc' = "done"
    /\ UNCHANGED <<call, csvString, startIndex, obj, path, topCall, outcome, result>>

\* ------------------------------------------------------- JavaScript values
\* scalars, named by their literal
Scalars == {"undefined", "null", "0", "false", "''", "1"}

\* the scalars for which !x is true
Falsy == {"undefined", "null", "0", "false", "''"}

Scalar(n) == [t |-> "scalar", v |-> n, kids |-> {}, items |-> <<>>]

Undefined == Scalar("undefined")

\* what evaluating a property of null or undefined raises
TypeError == Scalar("TypeError")

Keys == {"a", "b"}

\* an object literal; kids is its set of <<key, value>> properties
Object(kids) == [t |-> "object", v |-> "", kids |-> kids, items |-> <<>>]

\* an array literal
Array(items) == [t |-> "array", v |-> "", kids |-> {}, items |-> items]

\* scalars and objects of at most one property, nested at most d deep
RECURSIVE Values(_)
Values(d) ==
    IF d = 0 THEN {Scalar(n) : n \in Scalars}
    ELSE {Scalar(n) : n \in Scalars} \cup {Object({})}
         \cup {Object({<<k, x>>}) : k \in Keys, x \in Values(d - 1)}

\* !!x
Truthy(x) == x.t # "scalar" \/ x.v \notin Falsy

\* x[k] for a property name k
Get(x, k) ==
    IF x.t = "scalar" /\ x.v \in {"undefined", "null"} THEN TypeError
    ELSE IF \E kv \in x.kids : kv[1] = k
         THEN (CHOOSE kv \in x.kids : kv[1] = k)[2]
         ELSE Undefined

\* --------------------------------------------------------- getPropertyPath
\* a path argument: an array of keys or a single key
ArrayPath(items) == [isArray |-> TRUE, items |-> items, key |-> ""]

KeyPath(k) == [isArray |-> FALSE, items |-> <<>>, key |-> k]

Paths ==
    {ArrayPath(p) : p \in UNION {[1..n -> Keys] : n \in 0..MaxPath}}
    \cup {KeyPath(k) : k \in Keys}

\* if (!_.isArray(path)) path = [path]
AsArray(p) == IF p.isArray THEN p ELSE ArrayPath(<<p.key>>)

\* !path.length || !obj
StopsAt(o, p) == Len(p.items) = 0 \/ ~Truthy(o)

\* path.slice(1)
Slice1(p) == ArrayPath(Tail(p.items))

\* return obj
GetPropertyPathReturn ==
    /\ call = "getPropertyPath" /\ pc = "run"
    /\ StopsAt(obj, AsArray(path))
    /\ result' = obj
    /\ pc' = "done"
    /\ UNCHANGED <<call, csvString, startIndex, records, currentRecord, kept,
                   obj, path, topCall, outcome>>

\* return exports.getPropertyPath(obj[path[0]], path.slice(1))
GetPropertyPathRecurse ==
    /\ call = "getPropertyPath" /\ pc = "run"
    /\ ~StopsAt(obj, AsArray(path))
    /\ obj' = Get(obj, AsArray(path).items[1])
    /\ path' = Slice1(AsArray(path))
    /\ UNCHANGED <<call, pc, csvString, startIndex, records, currentRecord,
                   kept, topCall, outcome, result>>

\* --------------------------------------------------------------- getErrors
\* what fn can return or throw: a scalar or an array of scalars
ErrValues ==
    {Scalar(n) : n \in Scalars}
    \cup {Array(a) : a \in UNION {[1..n -> {Scalar(m) : m \in Scalars}] : n \in 0..MaxItems}}

Outcomes == [threw : BOOLEAN, value : ErrValues]

\* variant: only undefined is replaced by the empty array
OrEmpty_OnlyUndefined(x) == IF x = Undefined THEN Array(<<>>) ELSE x

\* x || []
OrEmpty(x) == IF Truthy(x) THEN x ELSE Array(<<>>)

\* arr.concat(x)
Concat(arr, x) == IF x.t = "array" THEN arr \o x.items ELSE Append(arr, x)

\* the array getErrors returns when fn.apply behaves as o
Collected(o) ==
    IF o.threw THEN Append(<<>>, o.value)
    ELSE Concat(<<>>, OrEmpty(o.value))

GetErrors ==
    /\ call = "getErrors" /\ pc = "run"
    /\ result' = Collected(outcome)
    /\ pc' = "done"
    /\ UNCHANGED <<call, csvString, startIndex, records, currentRecord, kept,
                   obj, path, topCall, outcome>>

\* ----------------------------------------------------------- specification
NoOutcome == [threw |-> FALSE, value |-> Undefined]

\* the module is loaded and none of its functions has been called
Init ==
    /\ call = "none"
    /\ pc = "idle"
    /\ csvString = <<>>
    /\ startIndex = 0
    /\ records = <<>>
    /\ currentRecord = <<>>
    /\ kept = {}
    /\ obj = Undefined
    /\ path = ArrayPath(<<>>)
    /\ topCall = [obj |-> Undefined, path |-> ArrayPath(<<>>)]
    /\ outcome = NoOutcome
    /\ result = Undefined

\* exports.parseCSV(s): the declarations before the loop
CallParseCSV ==
    /\ pc = "idle"
    /\ \E s \in Strings : csvString' = s
    /\ call' = "parseCSV"
    /\ pc' = "run"
    /\ startIndex' = 0
    /\ records' = <<>>
    /\ currentRecord' = <<>>
    /\ UNCHANGED <<kept, obj, path, topCall, outcome, result>>

\* exports.getPropertyPath(o, p)
CallGetPropertyPath ==
    /\ pc = "idle"
    /\ \E o \in Values(MaxDepth), p \in Paths :
          /\ obj' = o
          /\ path' = p
          /\ topCall' = [obj |-> o, path |-> p]
    /\ call' = "getPropertyPath"
    /\ pc' = "run"
    /\ UNCHANGED <<csvString, startIndex, records, currentRecord, kept,
                   outcome, result>>

\* exports.getErrors(fn, args), fn.apply(this, args) behaving as o
CallGetErrors ==
    /\ pc = "idle"
    /\ \E o \in Outcomes : outcome' = o
    /\ call' = "getErrors"
    /\ pc' = "run"
    /\ UNCHANGED <<csvString, startIndex, records, currentRecord, kept,
                   obj, path, topCall, result>>

Next ==
    \/ CallParseCSV
    \/ CallGetPropertyPath
    \/ CallGetErrors
    \/ ScanField
    \/ Finish
    \/ GetPropertyPathReturn
    \/ GetPropertyPathRecurse
    \/ GetErrors

Spec == Init /\ [][Next]_vars

\* the call runs to completion: nothing suspends it
FairSpec == Spec /\ WF_vars(Next)

\* ------------------------------------------------------ auxiliary operators
RECURSIVE Flatten(_)
Flatten(recs) == IF recs = <<>> THEN <<>> ELSE Head(recs) \o Flatten(Tail(recs))

\* every field pushed so far, in push order, while the loop is running
AllFields == Flatten(records) \o currentRecord

Last(q) == q[Len(q)]

IsDelimFree(f) == \A i \in 1..Len(f) : f[i] \notin Delims

\* fields joined with commas
RECURSIVE Join(_)
Join(r) ==
    IF r = <<>> THEN <<>>
    ELSE IF Len(r) = 1 THEN r[1]
    ELSE r[1] \o <<Comma>> \o Join(Tail(r))

\* a step of the loop that found a marker
ScanStep == call = "parseCSV" /\ pc = "run" /\ pc' = "run"

\* the delimiter of the marker that ends just before index next: the last
\* character before next that is not a space
MarkerDelim(s, next) ==
    LET ns == {i \in 0..(next - 1) : CharAt(s, i) # Space}
    IN  IF ns = {} THEN ""
        ELSE CharAt(s, CHOOSE i \in ns : \A j \in ns : j <= i)

\* a quote directly followed by a delimiter occurs at or after index start
HasCloser(s, start) ==
    \E p \in start..(Len(s) - 2) :
        CharAt(s, p) = Quote /\ CharAt(s, p + 1) \in Delims

\* a delimiter occurs at or after index start
HasDelim(s, start) == \E p \in start..(Len(s) - 1) : CharAt(s, p) \in Delims

\* the index of the first delimiter at or after start
FirstDelim(s, start) ==
    CHOOSE p \in start..(Len(s) - 1) :
        CharAt(s, p) \in Delims /\ \A j \in start..(p - 1) : CharAt(s, j) \notin Delims

\* ------------------------------------------------------------------ C5
\* C5: every record of the result has at least one field, at every point of
\* the scan, and the empty input yields no records.
C5_NoEmptyRecord ==
    call = "parseCSV" =>
        /\ \A i \in 1..Len(records) : Len(records[i]) >= 1
        /\ (pc = "done" /\ csvString = <<>>) => records = <<>>

\* two records were appended during the scan and none by the final push
C5_Witness ==
    /\ call = "parseCSV" /\ pc = "done"
    /\ Len(records) = 2 /\ currentRecord = <<>>

\* ------------------------------------------------------------------ C8
\* C8: on every iteration that finds a marker the field is appended to the
\* current record; a comma keeps the record open and leaves the result
\* unchanged, a CR or LF appends the record to the result and starts a new
\* empty record.
C8_RecordBoundaries ==
    [][ScanStep =>
          LET d == MarkerDelim(csvString, startIndex')
              f == Last(AllFields')
          IN  /\ d \in Delims
              /\ Len(AllFields') = Len(AllFields) + 1
              /\ d = Comma =>
                    /\ currentRecord' = Append(currentRecord, f)
                    /\ records' = records
              /\ d \in {CR, LF} =>
                    /\ records' = Append(records, Append(currentRecord, f))
                    /\ currentRecord' = <<>>]_vars

\* a quoted field closed a record with a CR or LF and a later comma kept the
\* next record open
C8_Witness ==
    /\ call = "parseCSV" /\ pc = "run"
    /\ CharAt(csvString, 0) = Quote
    /\ Len(records) = 1 /\ Len(currentRecord) = 1

\* ------------------------------------------------------------------ C10
\* C10: a field emitted while the character at the cursor is not a quote is
\* the input from the cursor up to the first delimiter, character for
\* character, and holds no comma, CR or LF.
C10_UnquotedVerbatim ==
    [][(ScanStep /\ CharAt(csvString, startIndex) # Quote) =>
          /\ Len(AllFields') = Len(AllFields) + 1
          /\ Last(AllFields') =
                SubSeq(csvString, startIndex + 1, FirstDelim(csvString, startIndex))
          /\ IsDelimFree(Last(AllFields'))]_vars

\* an unquoted first field came out with its doubled quote still doubled
C10_Witness ==
    /\ call = "parseCSV" /\ pc = "run"
    /\ CharAt(csvString, 0) # Quote
    /\ records = <<>> /\ Len(currentRecord) = 1
    /\ \E i \in 1..(Len(currentRecord[1]) - 1) :
          currentRecord[1][i] = Quote /\ currentRecord[1][i + 1] = Quote

RECURSIVE CloseQuote(_, _)
CloseQuote(s, i) ==
    IF i >= Len(s) THEN -1
    ELSE IF CharAt(s, i) # Quote THEN CloseQuote(s, i + 1)
    ELSE IF CharAt(s, i + 1) = Quote THEN CloseQuote(s, i + 2)
    ELSE i

\* a well-formed quoted field starts at index start and its closing quote is
\* followed by a delimiter
WellQuotedAt(s, start) ==
    /\ CharAt(s, start) = Quote
    /\ CloseQuote(s, start + 1) >= 0
    /\ CharAt(s, CloseQuote(s, start + 1) + 1) \in Delims

\* the content of a quoted field with each doubled quote written once
RECURSIVE Unquote(_)
Unquote(c) ==
    IF c = <<>> THEN <<>>
    ELSE IF Head(c) = Quote THEN <<Quote>> \o Unquote(SubSeq(c, 3, Len(c)))
    ELSE <<Head(c)>> \o Unquote(Tail(c))

\* C1: when a well-formed quoted field starts at the cursor, the iteration
\* emits exactly one field for it, the text between its quotes with each
\* doubled quote written once, and the cursor moves past its closing quote
\* and delimiter; delimiters inside the quotes do not end it.
C1_QuotedFieldWhole ==
    [][(call = "parseCSV" /\ pc = "run" /\ WellQuotedAt(csvString, startIndex)) =>
          LET c == CloseQuote(csvString, startIndex + 1)
          IN  /\ pc' = "run"
              /\ AllFields' =
                    Append(AllFields,
                           Unquote(SubSeq(csvString, startIndex + 2, c)))
              /\ startIndex' > c + 1]_vars

\* ------------------------------------------------------------------ C2
IsPlain(f) == \A i \in 1..Len(f) : f[i] \notin (Delims \cup {Quote})

\* C2 as stated: every returned record whose fields hold no comma, CR, LF or
\* quote parses back, after joining with commas, to that one record.
C2_RoundTripOriginal ==
    (call = "parseCSV" /\ pc = "done") =>
        \A i \in 1..Len(records) :
            (\A j \in 1..Len(records[i]) : IsPlain(records[i][j])) =>
                parseCSV(Join(records[i])) = <<records[i]>>

\* the record survives joining and parsing again: only its first field may
\* begin with a space, and its last field is non-empty with no white space
\* at either end
RoundTrips(r) ==
    /\ \A j \in 1..Len(r) : IsPlain(r[j])
    /\ \A j \in 2..Len(r) : r[j] = <<>> \/ r[j][1] # Space
    /\ Last(r) # <<>>
    /\ Last(r)[1] \notin WhiteSpace
    /\ Last(Last(r)) \notin WhiteSpace

\* C2 (amended): every returned record whose fields hold no comma, CR, LF or
\* quote, in which no field after the first begins with a space and whose
\* last field is non-empty and has no white space at either end, parses
\* back, after joining with commas, to that one record.
C2_RoundTrip ==
    (call = "parseCSV" /\ pc = "done") =>
        \A i \in 1..Len(records) :
            RoundTrips(records[i]) =>
                parseCSV(Join(records[i])) = <<records[i]>>

\* a returned record of several fields, one of them with a space, that
\* qualifies for the round trip
C2_Witness ==
    /\ call = "parseCSV" /\ pc = "done"
    /\ \E i \in 1..Len(records) :
          /\ RoundTrips(records[i])
          /\ Len(records[i]) >= 2
          /\ \E j \in 1..Len(records[i]) :
                \E k \in 1..Len(records[i][j]) : records[i][j][k] = Space

\* ------------------------------------------------------------------ C3
\* a marker exists for the scan mode of the character at index start
HasMarker(s, start) ==
    IF CharAt(s, start) = Quote THEN HasCloser(s, start) ELSE HasDelim(s, start)

\* C3: the cursor never decreases and strictly increases on every iteration
\* that finds a marker, the loop exits on the first iteration that finds
\* none, and every call of parseCSV returns.
C3_Terminates ==
    /\ [][call = "parseCSV" =>
            /\ startIndex' >= startIndex
            /\ (pc = "run" /\ HasMarker(csvString, startIndex)) =>
                  (pc' = "run" /\ startIndex' > startIndex)
            /\ (pc = "run" /\ ~HasMarker(csvString, startIndex)) =>
                  pc' = "done"]_vars
    /\ (call = "parseCSV") ~> (pc = "done")

\* the call returned after a scan of several iterations
C3_Witness ==
    /\ call = "parseCSV" /\ pc = "done"
    /\ Len(Flatten(records)) >= 3
    /\ startIndex = Len(csvString)

\* ------------------------------------------------------------------ C4
\* the space at index i neither follows a delimiter nor a run of spaces that
\* follows one
ElsewhereSpace(s, i) ==
    /\ CharAt(s, i) = Space
    /\ MarkerDelim(s, i) \notin Delims

Spaces(f) == Cardinality({i \in 1..Len(f) : f[i] = Space})

\* the spaces of the returned fields are those copied from the input
KeptIsOutput ==
    Spaces(Flatten(Flatten(records))) =
        Cardinality({i \in kept : CharAt(csvString, i) = Space})

\* index i lies in text that became a field: before the cursor, or in a
\* trailing text that is not all white space
InAField(s, start, i) == i < start \/ Remaining(s, start) # <<>>

\* C4 as stated: every space of a field that does not follow a delimiter (or
\* a run of spaces after one) is in the value of that field.
C4_SpacesOriginal ==
    (call = "parseCSV" /\ pc = "done") =>
        /\ KeptIsOutput
        /\ \A i \in 0..(Len(csvString) - 1) :
              (ElsewhereSpace(csvString, i) /\ InAField(csvString, startIndex, i))
                  => i \in kept

\* index i lies in the white space at the start or the end of the text left
\* after the last marker
InTrimmedEnd(s, start, i) ==
    /\ i >= start
    /\ \/ \A j \in start..i : CharAt(s, j) \in WhiteSpace
       \/ \A j \in i..(Len(s) - 1) : CharAt(s, j) \in WhiteSpace

\* C4 (amended): every space that does not follow a delimiter (or a run of
\* spaces after one) is in the value of its field, except the white space at
\* the start and the end of the text left after the last marker, which is
\* trimmed away.
C4_Spaces ==
    (call = "parseCSV" /\ pc = "done") =>
        /\ KeptIsOutput
        /\ \A i \in 0..(Len(csvString) - 1) :
              ElsewhereSpace(csvString, i) =>
                  (i \in kept <=> ~InTrimmedEnd(csvString, startIndex, i))

\* one space was kept in a field that a marker ended and another was trimmed
\* off the trailing text
C4_Witness ==
    /\ call = "parseCSV" /\ pc = "done"
    /\ \E i \in 0..(startIndex - 1) :
          ElsewhereSpace(csvString, i) /\ i \in kept
    /\ \E i \in startIndex..(Len(csvString) - 1) :
          ElsewhereSpace(csvString, i) /\ i \notin kept

\* ------------------------------------------------------------------ C6
\* the value reached by descending v along keys, undefined as soon as a key
\* does not exist on the value reached
RECURSIVE Descend(_, _)
Descend(v, keys) ==
    IF keys = <<>> THEN v
    ELSE IF v.t = "object" /\ \E kv \in v.kids : kv[1] = Head(keys)
         THEN Descend((CHOOSE kv \in v.kids : kv[1] = Head(keys))[2], Tail(keys))
         ELSE Undefined

\* C6: getPropertyPath returns the value reached by descending obj along
\* path, undefined when a key does not exist on the value reached so far (a
\* scalar included); a non-array path is a one-key path.
C6_Lookup ==
    (call = "getPropertyPath" /\ pc = "done") =>
        result = Descend(topCall.obj,
                         IF topCall.path.isArray THEN topCall.path.items
                         ELSE <<topCall.path.key>>)

\* ------------------------------------------------------------------ C7
\* C7 as stated: a failure e gives [e]; a normal return gives the values fn
\* returned, the empty sequence when it returned nothing.
C7_CollectOriginal ==
    (call = "getErrors" /\ pc = "done") =>
        LET x == outcome.value
        IN  /\ outcome.threw => result = <<x>>
            /\ ~outcome.threw =>
                  result = (IF x.t = "array" THEN x.items
                            ELSE IF x = Undefined THEN <<>>
                            ELSE <<x>>)

\* C7 (amended): a failure e gives [e]; a normal return gives the elements of
\* the returned array, the returned value alone when it is a truthy
\* non-array, and the empty sequence when fn returned nothing or any other
\* falsy value (null, 0, '', false).
C7_Collect ==
    (call = "getErrors" /\ pc = "done") =>
        LET x == outcome.value
        IN  /\ outcome.threw => result = <<x>>
            /\ ~outcome.threw =>
                  result = (IF x.t = "array" THEN x.items
                            ELSE IF x.v \in Falsy THEN <<>>
                            ELSE <<x>>)

\* fn threw an array and it was collected whole, as one element
C7_Witness ==
    /\ call = "getErrors" /\ pc = "done"
    /\ outcome.threw
    /\ outcome.value.t = "array" /\ Len(outcome.value.items) = 2
    /\ result = <<outcome.value>>

====
